---- MODULE Spec2Model ----
(***************************************************************************)
(* A model of ensure_file.py: one invocation of the command line tool is   *)
(* one step.  Text is a sequence of one-character strings, so that the     *)
(* string operations of the source (splitlines, join, strip, index, in,    *)
(* re.search, re.sub) are computed character by character.                 *)
(***************************************************************************)
EXTENDS Integers, Sequences, FiniteSets, TLC

VARIABLES
    file,       \* the target path: [exists, text, mode]
    prevFile,   \* the target path as it was before the last invocation
    args,       \* the parsed command line of the last invocation
    gate,       \* the call of show_diff_and_confirm made by the last invocation
    branch,     \* the place where the last invocation left the program
    wrote,      \* whether the last invocation performed path.write_text
    exitCode,   \* the exit status of the last invocation (-1: none yet)
    runs        \* the number of invocations so far

vars == <<file, prevFile, args, gate, branch, wrote, exitCode, runs>>

-----------------------------------------------------------------------------
(* Bounds of the model *)

\* longest initial content of the target file
MaxFileLen == 3
\* invocations in a row (the first one free, the later ones repeat it)
MaxRuns == 2
\* longest old/new text handed to the confirmation gate on its own
MaxGateLen == 1
\* longest answer typed at the prompt when the gate is checked on its own
MaxRespLen == 3

-----------------------------------------------------------------------------
(* Exit codes, ensure_file.py:8-13 *)

EXIT_OK == 0
EXIT_GENERIC_FAIL == 1
EXIT_PERMISSIONS == 2
EXIT_NO_MATCH == 3
EXIT_NO_CHANGE_NEEDED == 4
EXIT_NOT_FOUND == 5

-----------------------------------------------------------------------------
(* Text *)

NL == "\n"
SP == " "
\* the characters of the target file: three letters and the line terminator
Alphabet == {"a", "b", "c", NL}

Str(S, n) == UNION {[1..k -> S] : k \in 0..n}

\* str.isspace for one character of the alphabet
IsSpace(ch) == ch \in {SP, NL}

\* s[i:] and s[:i] of Python, i a 0-based offset
From(s, i) == SubSeq(s, i + 1, Len(s))
Upto(s, i) == SubSeq(s, 1, i)

RECURSIVE rstrip(_)
rstrip(s) ==
    IF s = <<>> THEN s
    ELSE IF IsSpace(s[Len(s)]) THEN rstrip(SubSeq(s, 1, Len(s) - 1))
    ELSE s

RECURSIVE lstrip(_)
lstrip(s) ==
    IF s = <<>> THEN s
    ELSE IF IsSpace(s[1]) THEN lstrip(Tail(s))
    ELSE s

strip(s) == lstrip(rstrip(s))

LowerChar(ch) == IF ch = "Y" THEN "y" ELSE IF ch = "N" THEN "n" ELSE ch
lower(s) == [i \in 1..Len(s) |-> LowerChar(s[i])]

\* sub occurs in s at 0-based offset i
OccursAt(sub, s, i) ==
    /\ i + Len(sub) <= Len(s)
    /\ SubSeq(s, i + 1, i + Len(sub)) = sub

\* sub in s
contains(sub, s) == \E i \in 0..Len(s) : OccursAt(sub, s, i)

\* s.index(sub), defined when sub in s
index(sub, s) ==
    CHOOSE i \in 0..Len(s) :
        /\ OccursAt(sub, s, i)
        /\ \A j \in 0..(i - 1) : ~OccursAt(sub, s, j)

\* str.splitlines() over the alphabet: "\n" is the only line boundary in it
RECURSIVE splitlines(_)
splitlines(s) ==
    IF s = <<>> THEN <<>>
    ELSE IF contains(<<NL>>, s)
         THEN LET i == index(<<NL>>, s)
              IN  <<Upto(s, i)>> \o splitlines(From(s, i + 1))
         ELSE <<s>>

\* '\n'.join(lines)
RECURSIVE join(_)
join(lines) ==
    IF lines = <<>> THEN <<>>
    ELSE IF Len(lines) = 1 THEN lines[1]
    ELSE lines[1] \o <<NL>> \o join(Tail(lines))

-----------------------------------------------------------------------------
(* Regular expressions: a pattern is a non-empty sequence of character     *)
(* classes (such as [ab]c), a replacement is literal text.                 *)

MatchAt(pattern, l, i) ==
    /\ i + Len(pattern) <= Len(l)
    /\ \A k \in 1..Len(pattern) : l[i + k] \in pattern[k]

re_search(pattern, l) == \E i \in 0..Len(l) : MatchAt(pattern, l, i)

\* re.sub: leftmost, non-overlapping matches, scanning from offset i
RECURSIVE SubFrom(_, _, _, _)
SubFrom(pattern, replacement, l, i) ==
    IF i >= Len(l) THEN <<>>
    ELSE IF MatchAt(pattern, l, i)
         THEN replacement \o SubFrom(pattern, replacement, l, i + Len(pattern))
         ELSE <<l[i + 1]>> \o SubFrom(pattern, replacement, l, i + 1)

re_sub(pattern, replacement, l) == SubFrom(pattern, replacement, l, 0)

-----------------------------------------------------------------------------
(* The target file and the command line *)

Truthy(x) == x # <<>>

Absent == [exists |-> FALSE, text |-> <<>>, mode |-> "rw"]
Modes == {"rw", "r", "none"}

\* the options of the parser; an option not given (None) and an empty one are
\* both falsy, and both are the empty sequence here
NoArgs ==
    [line |-> <<>>, block |-> <<>>, start |-> <<>>, end |-> <<>>,
     replace |-> <<>>, replace_re |-> <<>>,
     force |-> FALSE, quiet |-> FALSE, idempotent_fail |-> FALSE]

\* no call of the gate; consumed is what a call read from standard input
NoGate ==
    [called |-> FALSE, old |-> <<>>, new |-> <<>>, force |-> FALSE,
     quiet |-> FALSE, consumed |-> <<>>,
     ret |-> "None", diff |-> FALSE, notice |-> FALSE, reads |-> 0]

Result(f, g, w, code, br) ==
    [file |-> f, gate |-> g, wrote |-> w, exit |-> code, branch |-> br]

-----------------------------------------------------------------------------
(* The functions of ensure_file.py *)

exit_ok_or_noop_swapped(idempotent_ok) ==
    IF idempotent_ok THEN EXIT_NO_CHANGE_NEEDED ELSE EXIT_OK

exit_ok_or_noop(idempotent_ok) ==
    IF idempotent_ok THEN EXIT_OK ELSE EXIT_NO_CHANGE_NEEDED

\* stdin is the sequence of lines waiting on standard input (none: end of
\* file); input() takes the first
show_diff_and_confirm_exact_y(old, new, force, quiet, stdin) ==
    IF old = new
    THEN [ret |-> "None", diff |-> FALSE, notice |-> ~quiet, reads |-> 0]
    ELSE IF force
    THEN [ret |-> "True", diff |-> ~quiet, notice |-> FALSE, reads |-> 0]
    ELSE IF stdin = <<>>
    THEN [ret |-> "EOFError", diff |-> ~quiet, notice |-> FALSE, reads |-> 1]
    ELSE [ret |-> IF stdin[1] = <<"y">> THEN "True" ELSE "False",
          diff |-> ~quiet, notice |-> FALSE, reads |-> 1]

show_diff_and_confirm(old, new, force, quiet, stdin) ==
    IF old = new
    THEN [ret |-> "None", diff |-> FALSE, notice |-> ~quiet, reads |-> 0]
    ELSE IF force
    THEN [ret |-> "True", diff |-> ~quiet, notice |-> FALSE, reads |-> 0]
    ELSE IF stdin = <<>>
    THEN [ret |-> "EOFError", diff |-> ~quiet, notice |-> FALSE, reads |-> 1]
    ELSE [ret |-> IF lower(strip(stdin[1])) = <<"y">> THEN "True" ELSE "False",
          diff |-> ~quiet, notice |-> FALSE, reads |-> 1]

\* the record of a call of the gate: its arguments, the line it read, its result
GateCall(old, new, force, quiet, stdin) ==
    LET out == show_diff_and_confirm(old, new, force, quiet, stdin)
    IN  [called |-> TRUE, old |-> old, new |-> new, force |-> force,
         quiet |-> quiet,
         consumed |-> IF out.reads > 0 /\ stdin # <<>> THEN <<stdin[1]>> ELSE <<>>,
         ret |-> out.ret, diff |-> out.diff, notice |-> out.notice,
         reads |-> out.reads]

safe_read(f) ==
    IF ~f.exists
    THEN [ok |-> FALSE, text |-> <<>>, exit |-> EXIT_NOT_FOUND, branch |-> "not_found"]
    ELSE IF f.mode = "none"
    THEN [ok |-> FALSE, text |-> <<>>, exit |-> EXIT_PERMISSIONS, branch |-> "read_denied"]
    ELSE [ok |-> TRUE, text |-> f.text, exit |-> EXIT_OK, branch |-> "read"]

\* path.write_text(new): PermissionError unless the file is writable; a file
\* that does not exist yet is created
write_text(f, new) ==
    IF f.exists /\ f.mode # "rw"
    THEN [ok |-> FALSE, file |-> f]
    ELSE [ok |-> TRUE, file |-> [exists |-> TRUE, text |-> new, mode |-> "rw"]]

\* the tail shared by the four operations: confirm, write, exit.  An EOFError
\* of input() reaches the handler of main, which exits 1.
confirm_and_write_always(f, old, new, force, quiet, idempotent_ok, stdin) ==
    LET g == GateCall(old, new, force, quiet, stdin)
        w == write_text(f, new)
    IN  IF g.ret = "EOFError"
        THEN Result(f, g, FALSE, EXIT_GENERIC_FAIL, "unhandled")
        ELSE IF g.ret = "None"
        THEN Result(f, g, FALSE, exit_ok_or_noop(idempotent_ok), "gate_none")
        ELSE IF w.ok
             THEN Result(w.file, g, TRUE, EXIT_OK, "written")
             ELSE Result(f, g, FALSE, EXIT_PERMISSIONS, "write_denied")

confirm_and_write(f, old, new, force, quiet, idempotent_ok, stdin) ==
    LET g == GateCall(old, new, force, quiet, stdin)
        w == write_text(f, new)
    IN  IF g.ret = "EOFError"
        THEN Result(f, g, FALSE, EXIT_GENERIC_FAIL, "unhandled")
        ELSE IF g.ret = "None"
        THEN Result(f, g, FALSE, exit_ok_or_noop(idempotent_ok), "gate_none")
        ELSE IF g.ret = "True"
        THEN IF w.ok
             THEN Result(w.file, g, TRUE, EXIT_OK, "written")
             ELSE Result(f, g, FALSE, EXIT_PERMISSIONS, "write_denied")
        ELSE Result(f, g, FALSE, exit_ok_or_noop(idempotent_ok), "declined")

\* line in lines
line_in_lines_substring(line, lines) ==
    \E i \in 1..Len(lines) : contains(line, lines[i])

line_in_lines(line, lines) == \E i \in 1..Len(lines) : lines[i] = line

ensure_line(f, line, force, quiet, idempotent_ok, stdin) ==
    LET rd == IF f.exists THEN safe_read(f)
              ELSE [ok |-> TRUE, text |-> <<>>, exit |-> EXIT_OK, branch |-> "read"]
        old == rd.text
        lines == splitlines(old)
        new == join(Append(lines, line)) \o <<NL>>
    IN  IF ~rd.ok
        THEN Result(f, NoGate, FALSE, rd.exit, rd.branch)
        ELSE IF line_in_lines(line, lines)
        THEN Result(f, NoGate, FALSE, exit_ok_or_noop(idempotent_ok), "line_present")
        ELSE confirm_and_write(f, old, new, force, quiet, idempotent_ok, stdin)

\* the new content computed by ensure_block
ensure_block_new(old, block_lines, marker_start, marker_end) ==
    LET block == join(<<marker_start>> \o block_lines \o <<marker_end>>)
    IN  IF contains(marker_start, old) /\ contains(marker_end, old)
        THEN LET start == index(marker_start, old)
                 end == index(marker_end, old) + Len(marker_end)
                 before == rstrip(Upto(old, start))
                 after == lstrip(From(old, end))
             IN  before \o <<NL>> \o block \o <<NL>> \o after
        ELSE LET prefix == rstrip(old)
             IN  IF Truthy(prefix)
                 THEN prefix \o <<NL>> \o block \o <<NL>>
                 ELSE block \o <<NL>>

ensure_block(f, block_lines, marker_start, marker_end, force, quiet, idempotent_ok, stdin) ==
    LET rd == IF f.exists THEN safe_read(f)
              ELSE [ok |-> TRUE, text |-> <<>>, exit |-> EXIT_OK, branch |-> "read"]
        old == rd.text
        new == ensure_block_new(old, block_lines, marker_start, marker_end)
    IN  IF ~rd.ok
        THEN Result(f, NoGate, FALSE, rd.exit, rd.branch)
        ELSE IF old = new
        THEN Result(f, NoGate, FALSE, exit_ok_or_noop(idempotent_ok), "block_correct")
        ELSE confirm_and_write(f, old, new, force, quiet, idempotent_ok, stdin)

\* the loop of replace_line: new_lines, match_found, changed
replace_line_scan_first(lines, old_line, new_line) ==
    LET hit(i) == lines[i] = old_line /\ \A j \in 1..(i - 1) : lines[j] # old_line
    IN  [new_lines |-> [i \in 1..Len(lines) |->
                           IF hit(i) THEN new_line ELSE lines[i]],
         match_found |-> \E i \in 1..Len(lines) : lines[i] = old_line,
         changed |-> \E i \in 1..Len(lines) :
                        lines[i] = old_line /\ lines[i] # new_line]

replace_line_scan(lines, old_line, new_line) ==
    [new_lines |-> [i \in 1..Len(lines) |->
                       IF lines[i] = old_line
                       THEN IF lines[i] # new_line THEN new_line ELSE lines[i]
                       ELSE lines[i]],
     match_found |-> \E i \in 1..Len(lines) : lines[i] = old_line,
     changed |-> \E i \in 1..Len(lines) :
                    lines[i] = old_line /\ lines[i] # new_line]

replace_line(f, old_line, new_line, force, quiet, idempotent_ok, stdin) ==
    LET rd == safe_read(f)
        old == rd.text
        sc == replace_line_scan(splitlines(old), old_line, new_line)
        new == join(sc.new_lines) \o <<NL>>
    IN  IF ~rd.ok
        THEN Result(f, NoGate, FALSE, rd.exit, rd.branch)
        ELSE IF ~sc.match_found
        THEN Result(f, NoGate, FALSE, EXIT_NO_MATCH, "no_match")
        ELSE IF ~sc.changed
        THEN Result(f, NoGate, FALSE, exit_ok_or_noop(idempotent_ok), "not_changed")
        ELSE confirm_and_write(f, old, new, force, quiet, idempotent_ok, stdin)

\* the loop of replace_line_re
replace_line_re_scan(lines, pattern, replacement) ==
    [new_lines |-> [i \in 1..Len(lines) |-> re_sub(pattern, replacement, lines[i])],
     match_found |-> \E i \in 1..Len(lines) : re_search(pattern, lines[i]),
     changed |-> \E i \in 1..Len(lines) :
                    re_sub(pattern, replacement, lines[i]) # lines[i]]

replace_line_re(f, pattern, replacement, force, quiet, idempotent_ok, stdin) ==
    LET rd == safe_read(f)
        old == rd.text
        sc == replace_line_re_scan(splitlines(old), pattern, replacement)
        new == join(sc.new_lines) \o <<NL>>
    IN  IF ~rd.ok
        THEN Result(f, NoGate, FALSE, rd.exit, rd.branch)
        ELSE IF ~sc.match_found
        THEN Result(f, NoGate, FALSE, EXIT_NO_MATCH, "no_match")
        ELSE IF ~sc.changed
        THEN Result(f, NoGate, FALSE, exit_ok_or_noop(idempotent_ok), "not_changed")
        ELSE confirm_and_write(f, old, new, force, quiet, idempotent_ok, stdin)

\* the operation main selects
Operation(a) ==
    IF Truthy(a.line) THEN "line"
    ELSE IF Truthy(a.block) /\ Truthy(a.start) /\ Truthy(a.end) THEN "block"
    ELSE IF Truthy(a.replace) THEN "replace"
    ELSE IF Truthy(a.replace_re) THEN "replace_re"
    ELSE "none"

main(f, a, stdin) ==
    IF Truthy(a.line)
    THEN ensure_line(f, a.line, a.force, a.quiet, ~a.idempotent_fail, stdin)
    ELSE IF Truthy(a.block) /\ Truthy(a.start) /\ Truthy(a.end)
    THEN ensure_block(f, a.block, a.start, a.end, a.force, a.quiet,
                      ~a.idempotent_fail, stdin)
    ELSE IF Truthy(a.replace)
    THEN replace_line(f, a.replace[1], a.replace[2], a.force, a.quiet,
                      ~a.idempotent_fail, stdin)
    ELSE IF Truthy(a.replace_re)
    THEN replace_line_re(f, a.replace_re[1], a.replace_re[2], a.force, a.quiet,
                         ~a.idempotent_fail, stdin)
    ELSE Result(f, NoGate, FALSE, EXIT_GENERIC_FAIL, "usage")

-----------------------------------------------------------------------------
(* The inputs of the model *)

Files ==
    {Absent} \cup
    {[exists |-> TRUE, text |-> t, mode |-> m] : t \in Str(Alphabet, MaxFileLen), m \in Modes}

LineArgs == {<<"a">>, <<"a", "b">>}
BlockArgs == {<< <<"c">> >>, << <<"c">>, <<"c">> >>}
StartArgs == {<<"a">>}
EndArgs == {<<"b">>}
FromArgs == {<<"a">>, <<>>}
ToArgs == {<<"a">>, <<"c">>}
PatternArgs == {<< {"a", "b"} >>, << {"a"}, {"b"} >>}
ReplacementArgs == {<<"a">>, <<"c">>}
Stdins == {<<>>, << <<"y">> >>, << <<"n">> >>}

Flags(a) ==
    {[a EXCEPT !.force = f, !.quiet = q, !.idempotent_fail = i] :
        f \in BOOLEAN, q \in BOOLEAN, i \in BOOLEAN}

-----------------------------------------------------------------------------
(* The invocations *)

Init ==
    /\ file \in Files
    /\ prevFile = file
    /\ args = NoArgs
    /\ gate = NoGate
    /\ branch = "none"
    /\ wrote = FALSE
    /\ exitCode = -1
    /\ runs = 0

Exec(a, stdin) ==
    LET r == main(file, a, stdin)
    IN  /\ file' = r.file
        /\ prevFile' = file
        /\ args' = a
        /\ gate' = r.gate
        /\ branch' = r.branch
        /\ wrote' = r.wrote
        /\ exitCode' = r.exit
        /\ runs' = runs + 1

EnsureLine ==
    /\ runs = 0
    /\ \E line \in LineArgs, stdin \in Stdins :
         \E a \in Flags([NoArgs EXCEPT !.line = line]) : Exec(a, stdin)

EnsureBlock ==
    /\ runs = 0
    /\ \E b \in BlockArgs, s \in StartArgs, e \in EndArgs, stdin \in Stdins :
         \E a \in Flags([NoArgs EXCEPT !.block = b, !.start = s, !.end = e]) :
            Exec(a, stdin)

ReplaceLine ==
    /\ runs = 0
    /\ \E from \in FromArgs, to \in ToArgs, stdin \in Stdins :
         \E a \in Flags([NoArgs EXCEPT !.replace = <<from, to>>]) : Exec(a, stdin)

ReplaceLineRe ==
    /\ runs = 0
    /\ \E p \in PatternArgs, r \in ReplacementArgs, stdin \in Stdins :
         \E a \in Flags([NoArgs EXCEPT !.replace_re = <<p, r>>]) : Exec(a, stdin)

\* no operation on the command line
NoOperation ==
    /\ runs = 0
    /\ \E a \in Flags(NoArgs) : Exec(a, <<>>)

\* the same command line once more, as a provisioning run repeats it
Rerun ==
    /\ runs >= 1
    /\ runs < MaxRuns
    /\ \E stdin \in Stdins : Exec(args, stdin)

Next ==
    \/ EnsureLine
    \/ EnsureBlock
    \/ ReplaceLine
    \/ ReplaceLineRe
    \/ NoOperation
    \/ Rerun

Spec == Init /\ [][Next]_vars

-----------------------------------------------------------------------------
(* The confirmation gate on its own: any old and new text, any answer *)

AnswerAlphabet == {"y", "Y", "n", SP}

GateStdins == {<<>>} \cup {<<r>> : r \in Str(AnswerAlphabet, MaxRespLen)}

InitGate ==
    /\ file = Absent
    /\ prevFile = Absent
    /\ args = NoArgs
    /\ gate = NoGate
    /\ branch = "none"
    /\ wrote = FALSE
    /\ exitCode = -1
    /\ runs = 0

CallGate ==
    /\ ~gate.called
    /\ \E old \in Str(Alphabet, MaxGateLen), new \in Str(Alphabet, MaxGateLen),
          force \in BOOLEAN, quiet \in BOOLEAN, stdin \in GateStdins :
         gate' = GateCall(old, new, force, quiet, stdin)
    /\ UNCHANGED <<file, prevFile, args, branch, wrote, exitCode, runs>>

NextGate == CallGate

SpecGate == InitGate /\ [][NextGate]_vars

-----------------------------------------------------------------------------
(* Vocabulary of the claims *)

\* the invocation found nothing to change
AlreadyCorrect == branch \in {"line_present", "block_correct", "not_changed", "gate_none"}

\* the invocation computed a new content that differs from the old one
Changed == gate.called /\ gate.old # gate.new

\* a "y" in either case with blanks around it
IsYes(r) ==
    \E i \in 1..Len(r) :
        /\ r[i] \in {"y", "Y"}
        /\ \A j \in 1..Len(r) : j # i => r[j] = SP

\* the change was forced or the user answered yes
Approved ==
    /\ gate.called
    /\ \/ gate.force
       \/ gate.consumed # <<>> /\ IsYes(gate.consumed[1])

\* the text the invocation read (an absent file reads as empty for the
\* ensure operations)
OldText == IF prevFile.exists THEN prevFile.text ELSE <<>>
Readable == ~prevFile.exists \/ prevFile.mode # "none"

EndsWithOneNewline(t) ==
    /\ Len(t) >= 1
    /\ t[Len(t)] = NL
    /\ Len(t) >= 2 => t[Len(t) - 1] # NL

-----------------------------------------------------------------------------
(* The claims *)

\* C1: after a forced Ensure-Block run has written the file, a run with the
\* same command line finds the block already correct and leaves the file as
\* the first run wrote it.
C1_BlockIdempotent ==
    [][(/\ Operation(args) = "block"
        /\ args.force
        /\ wrote
        /\ runs' = runs + 1
        /\ args' = args)
       => (branch' = "block_correct" /\ ~wrote' /\ file' = file)]_vars

C3_NoChangeExitAsTested ==
    (/\ runs > 0
     /\ AlreadyCorrect
     /\ Operation(args) \in {"line", "replace", "replace_re"}) =>
        /\ exitCode = IF args.idempotent_fail THEN EXIT_OK ELSE EXIT_NO_CHANGE_NEEDED
        /\ file = prevFile

\* C4: the file changes only when a change was computed and approved; an
\* invocation that ends with no match, nothing to change, a declined change,
\* a missing file or a denied read leaves the path exactly as it was.
C4_WriteOnlyWhenApproved ==
    runs > 0 =>
        /\ (wrote \/ file # prevFile) => (Changed /\ Approved /\ gate.ret = "True")
        /\ ~wrote => file = prevFile
        /\ (\/ AlreadyCorrect
            \/ branch \in {"no_match", "declined", "not_found", "read_denied"})
           => (~wrote /\ file = prevFile)

C4_Witness ==
    /\ runs > 0
    /\ branch = "declined"
    /\ Changed
    /\ ~Approved
    /\ ~prevFile.exists
    /\ ~file.exists

\* C5: when an offered change is declined and -I was not given, the change
\* is not applied and the exit code is 4.
C5_DeclinedExit ==
    (runs > 0 /\ branch = "declined" /\ ~args.idempotent_fail) =>
        /\ file = prevFile
        /\ exitCode = EXIT_NO_CHANGE_NEEDED

\* C6: whatever the tool writes ends with exactly one newline character.
C6_OneTrailingNewline ==
    (runs > 0 /\ wrote) => EndsWithOneNewline(file.text)

\* C7: when the start marker first occurs before the end marker, the lines
\* written are the lines before the span (trailing whitespace trimmed), the
\* start marker, the body, the end marker, and the lines after the span
\* (leading whitespace trimmed), and nothing else.
C7_BlockSpanReplaced ==
    (/\ runs > 0
     /\ Operation(args) = "block"
     /\ wrote
     /\ contains(args.start, OldText)
     /\ contains(args.end, OldText)
     /\ index(args.start, OldText) < index(args.end, OldText)) =>
        LET start == index(args.start, OldText)
            end == index(args.end, OldText) + Len(args.end)
        IN  splitlines(file.text) =
                splitlines(rstrip(Upto(OldText, start)))
                \o <<args.start>> \o args.block \o <<args.end>>
                \o splitlines(lstrip(From(OldText, end)))

\* C8: Ensure-Line finds the line present exactly when it equals a whole
\* line of the file (an absent file has no lines) and then writes nothing;
\* otherwise an approved run writes the old lines, unchanged and in order,
\* followed by the line once, each terminated by a newline.
C8_EnsureLine ==
    (runs > 0 /\ Operation(args) = "line" /\ Readable) =>
        LET L == splitlines(OldText)
            x == args.line
            present == \E i \in 1..Len(L) : L[i] = x
        IN  /\ (branch = "line_present") <=> present
            /\ present => (AlreadyCorrect /\ ~wrote /\ file = prevFile)
            /\ ~present => Changed
            /\ (~present /\ Approved /\ (prevFile.exists => prevFile.mode = "rw"))
               => wrote
            /\ wrote =>
                /\ splitlines(file.text) = Append(L, x)
                /\ Len(file.text) = Len(join(L)) + (IF L = <<>> THEN 0 ELSE 1) + Len(x) + 1
                /\ file.text[Len(file.text)] = NL

C8_Witness ==
    /\ runs > 0
    /\ Operation(args) = "line"
    /\ wrote
    /\ args.line = <<"a">>
    /\ prevFile.exists
    /\ prevFile.text = <<"a", "b", NL>>
    /\ splitlines(file.text) = << <<"a", "b">>, <<"a">> >>

\* C9: Replace-Exact over an existing file ends with no match (exit 3)
\* exactly when no line equals from, with nothing to change exactly when a
\* line equals from and from = to, and otherwise computes a change; the file
\* an approved run writes has as many lines as before, each line that was
\* equal to from now to, every other line as it was.
C9_ReplaceExact ==
    (/\ runs > 0
     /\ Operation(args) = "replace"
     /\ prevFile.exists
     /\ prevFile.mode # "none") =>
        LET L == splitlines(prevFile.text)
            from == args.replace[1]
            to == args.replace[2]
            matched == \E i \in 1..Len(L) : L[i] = from
        IN  /\ (branch = "no_match") <=> ~matched
            /\ (branch = "no_match") => exitCode = EXIT_NO_MATCH
            /\ AlreadyCorrect <=> (matched /\ from = to)
            /\ Changed <=> (matched /\ from # to)
            /\ (Changed /\ Approved /\ prevFile.mode = "rw") => wrote
            /\ wrote =>
                LET N == splitlines(file.text)
                IN  /\ Len(N) = Len(L)
                    /\ \A i \in 1..Len(L) :
                          N[i] = IF L[i] = from THEN to ELSE L[i]

C9_Witness ==
    /\ runs > 0
    /\ Operation(args) = "replace"
    /\ wrote
    /\ splitlines(prevFile.text) = << <<"a">>, <<"a">> >>
    /\ splitlines(file.text) = << <<"c">>, <<"c">> >>

\* C10: the gate reads standard input only when old and new differ and the
\* change is not forced; equal texts return None with no diff and no prompt,
\* a forced change returns True unread, and otherwise one line is read and
\* the result is True exactly when the line is a y in either case with
\* blanks around it.
C10_Gate ==
    gate.called =>
        /\ gate.reads > 0 <=> (gate.old # gate.new /\ ~gate.force)
        /\ gate.old = gate.new =>
              (gate.ret = "None" /\ ~gate.diff /\ gate.reads = 0)
        /\ (gate.old # gate.new /\ gate.force) =>
              (gate.ret = "True" /\ gate.reads = 0 /\ gate.consumed = <<>>)
        /\ (gate.old # gate.new /\ ~gate.force) =>
              /\ gate.reads = 1
              /\ gate.consumed # <<>> =>
                    gate.ret = IF IsYes(gate.consumed[1]) THEN "True" ELSE "False"

C10_Witness ==
    /\ gate.called
    /\ gate.old # gate.new
    /\ ~gate.force
    /\ gate.reads = 1
    /\ gate.consumed = << <<SP, "Y", SP>> >>
    /\ gate.ret = "True"

====
